---- MODULE Spec2Model ----
(***************************************************************************)
(* A model of the pyxelate engine (src/pyxelate/pyx.py): class Pyx with    *)
(* its constructor, fit, colors and transform, the padding helper _pad and *)
(* the dithering passes of transform.                                      *)
(*                                                                         *)
(* Representation.  An image is a record [h, w, d, px, al]: px is the      *)
(* h x w matrix of colour samples (one representative colour channel, on   *)
(* the 0..255 scale; the float form 0.-1. of the code is kept as the       *)
(* integer 255 * value), al the matrix of alpha samples when d = 4.        *)
(* Matrices are sequences of rows, indexed from 1.                         *)
(***************************************************************************)
EXTENDS Integers, Sequences, FiniteSets, TLC

VARIABLES pad, obj, initArgs, last, hist, dith

vars == <<pad, obj, initArgs, last, hist, dith>>

\* Python's None where a number may stand; no argument of the model is this low.
None == -1000

Idle == [pc |-> "idle"]

Min(a, b) == IF a < b THEN a ELSE b

Max(a, b) == IF a > b THEN a ELSE b

Clamp(v, lo, hi) == Max(lo, Min(v, hi))

(***************************************************************************)
(* Arrays as values: Vec(n, F) is the sequence F(1) .. F(n) and            *)
(* Mat(h, w, F) the h x w matrix of the F(r, c), both computed once, as    *)
(* numpy computes an array when it is built.                               *)
(***************************************************************************)
Vec(n, F(_)) == SubSeq([i \in 1..n |-> F(i)], 1, n)

Mat(h, w, F(_, _)) == Vec(h, LAMBDA r : Vec(w, LAMBDA c : F(r, c)))

(***************************************************************************)
(* Bounds of the padding model.                                            *)
(***************************************************************************)
MaxPadDim == 6

MaxPadSize == 5

(***************************************************************************)
(* np.pad(M, ((top, bottom), (left, right)), "edge") on a matrix: every    *)
(* added row or column is a copy of the nearest row or column of M.        *)
(***************************************************************************)
PadEdge(M, top, bottom, left, right) ==
    LET h == Len(M)
        w == Len(M[1])
    IN  Mat(h + top + bottom, w + left + right,
            LAMBDA r, c : M[Clamp(r - top, 1, h)][Clamp(c - left, 1, w)])

(***************************************************************************)
(* M[slice(lo, -1 if cut else None)] along one axis of length n: the       *)
(* 1-based positions kept.                                                 *)
(***************************************************************************)
SliceLo(n, pad_size) == IF n % pad_size > 0 THEN 1 ELSE 0

SliceCut(n, pad_size) == IF n % pad_size = 1 THEN 1 ELSE 0

Crop(M, rlo, rcut, clo, ccut) ==
    LET rows == SubSeq(M, rlo + 1, Len(M) - rcut)
    IN  Vec(Len(rows), LAMBDA r : SubSeq(rows[r], clo + 1, Len(rows[r]) - ccut))

Shape(M) == <<Len(M), IF Len(M) = 0 THEN 0 ELSE Len(M[1])>>

(***************************************************************************)
(* Pyx._pad on the matrix of an image.  With nh and nw both None it pads,  *)
(* otherwise it removes the padding of an image that was nh x nw.          *)
(***************************************************************************)
_pad_unpad_always_cuts(M, pad_size, nh, nw) ==
    IF nh = None /\ nw = None
    THEN PadEdge(M, SliceLo(Len(M), pad_size), SliceCut(Len(M), pad_size),
                    SliceLo(Len(M[1]), pad_size), SliceCut(Len(M[1]), pad_size))
    ELSE Crop(M, SliceLo(nh, pad_size), SliceLo(nh, pad_size),
                 SliceLo(nw, pad_size), SliceLo(nw, pad_size))

_pad(M, pad_size, nh, nw) ==
    IF nh = None /\ nw = None
    THEN LET h == Len(M)
             w == Len(M[1])
             h1 == IF h % pad_size > 0 THEN 1 ELSE 0
             h2 == IF h % pad_size = 1 THEN 1 ELSE 0
             w1 == IF w % pad_size > 0 THEN 1 ELSE 0
             w2 == IF w % pad_size = 1 THEN 1 ELSE 0
         IN  PadEdge(M, h1, h2, w1, w2)
    ELSE Crop(M, SliceLo(nh, pad_size), SliceCut(nh, pad_size),
                 SliceLo(nw, pad_size), SliceCut(nw, pad_size))

(***************************************************************************)
(* The padding model: an image X whose samples all differ (the sample at   *)
(* row r, column c is 16 * r + c), a pad size, the padded image P and the  *)
(* image U with the padding removed again.                                 *)
(***************************************************************************)
PadImage(h, w) == Mat(h, w, LAMBDA r, c : 16 * r + c)

PadInit ==
    /\ \E h \in 1..MaxPadDim, w \in 1..MaxPadDim, t \in 2..MaxPadSize :
          pad = [pc |-> "start", X |-> PadImage(h, w), t |-> t,
                 P |-> <<>>, U |-> <<>>]
    /\ obj = Idle /\ initArgs = Idle /\ last = Idle /\ hist = Idle /\ dith = Idle

DoPad ==
    /\ pad.pc = "start"
    /\ pad' = [pad EXCEPT !.pc = "padded", !.P = _pad(pad.X, pad.t, None, None)]
    /\ UNCHANGED <<obj, initArgs, last, hist, dith>>

DoUnpad ==
    /\ pad.pc = "padded"
    /\ pad' = [pad EXCEPT !.pc = "unpadded",
                          !.U = _pad(pad.P, pad.t, Len(pad.X), Len(pad.X[1]))]
    /\ UNCHANGED <<obj, initArgs, last, hist, dith>>

PadNext == DoPad \/ DoUnpad

SpecPad == PadInit /\ [][PadNext]_vars

(***************************************************************************)
(* C1: for every image of shape (h, w, d) with h, w >= 1 and every pad     *)
(* size t >= 2, removing the padding from the padded image returns exactly *)
(* the image: the same shape and the same sample at every position.        *)
(***************************************************************************)
C1_UnpadInvertsPad ==
    pad.pc = "unpadded" => /\ Shape(pad.U) = Shape(pad.X)
                           /\ pad.U = pad.X

\* C1's case: padding was added on both sides of both axes and removed again.
C1_Witness ==
    /\ pad.pc = "unpadded"
    /\ Len(pad.P) = Len(pad.X) + 2
    /\ Len(pad.P[1]) = Len(pad.X[1]) + 2
    /\ Len(pad.U) = Len(pad.X)

(***************************************************************************)
(* C2: for every image and every tile size t >= 2, pad yields an image     *)
(* whose height and width are both multiples of t, adding at most one row  *)
(* at the top, one at the bottom, one column at the left and one at the    *)
(* right, each a copy of the adjacent edge row or column.                  *)
(***************************************************************************)
C2_PadMakesMultiples ==
    pad.pc = "padded" =>
        LET h == Len(pad.X)
            w == Len(pad.X[1])
            H == Len(pad.P)
            W == Len(pad.P[1])
        IN  /\ H % pad.t = 0
            /\ W % pad.t = 0
            /\ \E top \in 0..1, bottom \in 0..1, left \in 0..1, right \in 0..1 :
                  pad.P = PadEdge(pad.X, top, bottom, left, right)

(***************************************************************************)
(* Constructor arguments.  A numeric argument q of height, width, factor,  *)
(* sobel or upscale is kept as the integer 2 * q, so that 3 stands for 1.5 *)
(* and an odd number for a fractional value.  upscale is a scalar or a     *)
(* sequence; palette is a number of colours or a list of colours.          *)
(***************************************************************************)
MaxArg == 2

IsInteger(n2) == n2 % 2 = 0

\* int(q) for q >= 0: truncation.
Trunc(n2) == n2 \div 2

Scalar(n2) == [kind |-> "scalar", v |-> <<n2>>]

Pair(a2, b2) == [kind |-> "seq", v |-> <<a2, b2>>]

PalNum(n) == [kind |-> "num", n |-> n, list |-> <<>>]

PalList(l) == [kind |-> "list", n |-> 0, list |-> l]

Dithers == {"None", "none", "naive", "bayer", "floyd", "atkinson"}

Unfitted == [fitted |-> FALSE, means_ |-> <<>>]

(***************************************************************************)
(* Pyx.__init__: the checks in the order of the code, then the fields.     *)
(* The result is the error raised or the object constructed.               *)
(***************************************************************************)
NoObject == [pc |-> "none"]

Raise(e) == [ok |-> FALSE, err |-> e, obj |-> NoObject]

UpscaleOk(u) ==
    IF u.kind = "seq"
    THEN Len(u.v) = 2 /\ u.v[1] >= 2 /\ u.v[2] >= 2
    ELSE u.v[1] >= 2

__init__(a) ==
    IF (a.width # None \/ a.height # None) /\ a.factor # None
    THEN Raise("ValueError")
    ELSE IF ~ (a.height = None \/ a.height >= 2)
    THEN Raise("AssertionError")
    ELSE IF ~ (a.width = None \/ a.width >= 2)
    THEN Raise("AssertionError")
    ELSE IF ~ (a.factor = None \/ a.factor >= 2)
    THEN Raise("AssertionError")
    ELSE IF ~ (IsInteger(a.sobel) /\ a.sobel >= 4)
    THEN Raise("AssertionError")
    ELSE IF ~ UpscaleOk(a.upscale)
    THEN Raise("AssertionError")
    ELSE IF ~ (a.depth > 0)
    THEN Raise("AssertionError")
    ELSE IF a.palette.kind = "num" /\ a.palette.n < 2
    THEN Raise("ValueError")
    ELSE IF a.palette.kind = "list" /\ Len(a.palette.list) < 2
    THEN Raise("ValueError")
    ELSE IF a.dither \notin Dithers
    THEN Raise("AssertionError")
    ELSE [ok |-> TRUE, err |-> "",
          obj |-> [pc |-> "constructed",
                   height |-> IF a.height # None /\ a.height # 0 THEN Trunc(a.height) ELSE None,
                   width |-> IF a.width # None /\ a.width # 0 THEN Trunc(a.width) ELSE None,
                   factor |-> IF a.factor # None /\ a.factor # 0 THEN Trunc(a.factor) ELSE None,
                   sobel |-> Trunc(a.sobel),
                   upscale |-> IF a.upscale.kind = "seq"
                               THEN <<a.upscale.v[1], a.upscale.v[2]>>
                               ELSE <<a.upscale.v[1], a.upscale.v[1]>>,
                   depth |-> a.depth,
                   palette |-> a.palette,
                   find_palette |-> a.palette.kind = "num",
                   dither |-> a.dither,
                   alpha |-> a.alpha,
                   boost |-> a.boost,
                   model |-> Unfitted,
                   is_fitted |-> FALSE,
                   palette_cache |-> <<>>]]

(***************************************************************************)
(* A call and its outcome, kept for the claims: the operation, "ok" or     *)
(* "error" with the exception raised, the image passed, the caller's array *)
(* after the call and the value returned (an image for transform, the      *)
(* colours for colors).  hist keeps the image of the most recent fit that  *)
(* returned and whether some fit has raised.                               *)
(***************************************************************************)
NoImage == [h |-> 0, w |-> 0, d |-> 0, px |-> <<>>, al |-> <<>>]

Call(op, err, img, arg, out, cols) ==
    [op |-> op, status |-> IF err = "" THEN "ok" ELSE "error", err |-> err,
     img |-> img, arg |-> arg, out |-> out, cols |-> cols]

\* Pyx(...): the constructor call on arguments a, the first call of a behaviour.
Construct(a) ==
    /\ obj = NoObject
    /\ last = Idle
    /\ obj' = __init__(a).obj
    /\ initArgs' = a
    /\ last' = Call("init", __init__(a).err, NoImage, NoImage, NoImage, <<>>)
    /\ hist' = [lastFit |-> NoImage, raised |-> FALSE]
    /\ UNCHANGED <<pad, dith>>

(***************************************************************************)
(* The constructor model: every combination of the arguments below.        *)
(***************************************************************************)
ArgNums == (-2)..(2 * MaxArg)

OptArgNums == ArgNums \cup {None}

InitUpscales ==
    {Scalar(n) : n \in ArgNums} \cup {Pair(a, b) : a, b \in {2, 3}}
    \cup {[kind |-> "seq", v |-> <<2>>]}

InitArgSet ==
    [height : OptArgNums, width : OptArgNums, factor : OptArgNums,
     sobel : 2..(2 * MaxArg + 2), upscale : InitUpscales, depth : {0, 1},
     palette : {PalNum(1), PalNum(2)}, dither : {"none", "bogus"},
     alpha : {153}, boost : {TRUE}]

InitInit ==
    /\ obj = NoObject /\ initArgs = Idle /\ last = Idle /\ hist = Idle
    /\ pad = Idle /\ dith = Idle

InitNext == last = Idle /\ \E a \in InitArgSet : Construct(a)

SpecInit == InitInit /\ [][InitNext]_vars

(***************************************************************************)
(* C5: constructing a Pyx fails with an error, and no object is produced,  *)
(* whenever any of height, width, factor, tile size (sobel) or an upscale  *)
(* factor is given a non-positive or a fractional value.                   *)
(***************************************************************************)
BadNumber(n2) == n2 # None /\ (n2 <= 0 \/ ~ IsInteger(n2))

C5_BadGeometryRejected ==
    (/\ last # Idle
     /\ last.op = "init"
     /\ \/ BadNumber(initArgs.height)
        \/ BadNumber(initArgs.width)
        \/ BadNumber(initArgs.factor)
        \/ BadNumber(initArgs.sobel)
        \/ \E i \in 1..Len(initArgs.upscale.v) : BadNumber(initArgs.upscale.v[i]))
    => (last.status = "error" /\ obj = NoObject)

(***************************************************************************)
(* Class constants of Pyx.  SCALE_RGB (1.07) and HIST_BRIGHTNESS (1.19)    *)
(* are kept in hundredths.                                                 *)
(***************************************************************************)
BGM_RESIZE == 256

SCALE_RGB == 107

HIST_BRIGHTNESS == 119

COLOR_QUANT == 8

(***************************************************************************)
(* Helpers on sequences and matrices.                                      *)
(***************************************************************************)
Abs(v) == IF v < 0 THEN 0 - v ELSE v

\* np.argmax: the first position of the greatest entry.
ArgMax(v) ==
    CHOOSE i \in 1..Len(v) :
        /\ \A j \in 1..Len(v) : v[j] <= v[i]
        /\ \A j \in 1..(i - 1) : v[j] < v[i]

\* np.argmin: the first position of the least entry.
ArgMin(v) ==
    CHOOSE i \in 1..Len(v) :
        /\ \A j \in 1..Len(v) : v[j] >= v[i]
        /\ \A j \in 1..(i - 1) : v[j] > v[i]

SeqMin(s) == s[ArgMin(s)]

SeqMax(s) == s[ArgMax(s)]

\* M.reshape(-1): the entries in row-major order.
Flatten(M) ==
    LET w == Len(M[1])
    IN  Vec(Len(M) * w, LAMBDA i : M[((i - 1) \div w) + 1][((i - 1) % w) + 1])

MapM(F(_), M) == Mat(Len(M), Len(M[1]), LAMBDA r, c : F(M[r][c]))

(***************************************************************************)
(* skimage.transform.resize to nh x nw (nh, nw >= 1), as sampling of the   *)
(* source position each target position falls on.                          *)
(***************************************************************************)
Resize(M, nh, nw) ==
    LET h == Len(M)
        w == Len(M[1])
    IN  Mat(nh, nw, LAMBDA r, c :
            M[(((r - 1) * h) \div nh) + 1][(((c - 1) * w) \div nw) + 1])

_get_size_inverts_ratio(o, original_height, original_width) ==
    IF o.height # None /\ o.width # None
    THEN <<o.height, o.width>>
    ELSE IF o.height # None
    THEN <<o.height, (o.height * original_height) \div original_width>>
    ELSE IF o.width # None
    THEN <<(o.width * original_width) \div original_height, o.width>>
    ELSE IF o.factor # None
    THEN <<original_height \div o.factor, original_width \div o.factor>>
    ELSE <<original_height, original_width>>

\* Pyx._get_size; int(height / original_height * original_width) truncates.
_get_size(o, original_height, original_width) ==
    IF o.height # None /\ o.width # None
    THEN <<o.height, o.width>>
    ELSE IF o.height # None
    THEN <<o.height, (o.height * original_width) \div original_height>>
    ELSE IF o.width # None
    THEN <<(o.width * original_height) \div original_width, o.width>>
    ELSE IF o.factor # None
    THEN <<original_height \div o.factor, original_width \div o.factor>>
    ELSE <<original_height, original_width>>

\* The number of colours of the palette: palette, or len(palette).
PaletteSize(o) == IF o.find_palette THEN o.palette.n ELSE Len(o.palette.list)

\* ((X_ - .5) * SCALE_RGB) + .5 on the 0..255 scale.
ScaleRGB(v) == ((2 * v - 255) * SCALE_RGB + 25500) \div 200

(***************************************************************************)
(* BGM.fit on the samples S: the clustering library either rejects fewer   *)
(* samples than components or returns one mean per component.  The means   *)
(* are a fixed function of the samples (the random state is fixed): spread *)
(* over the range of the samples when the palette is searched, pulled from *)
(* each palette colour towards its nearest sample when it is given.        *)
(***************************************************************************)
NearestSample(S, p) ==
    S[CHOOSE i \in 1..Len(S) :
        /\ \A j \in 1..Len(S) : Abs(S[j] - p) >= Abs(S[i] - p)
        /\ \A j \in 1..(i - 1) : Abs(S[j] - p) > Abs(S[i] - p)]

BGM_fit(o, S) ==
    LET n == PaletteSize(o)
        lo == SeqMin(S)
        hi == SeqMax(S)
    IN  [fitted |-> TRUE,
         means_ |-> IF o.find_palette
                    THEN Vec(n, LAMBDA k : lo + (((hi - lo) * (k - 1)) \div (n - 1)))
                    ELSE Vec(n, LAMBDA k :
                            (Clamp(o.palette.list[k], 0, 255)
                             + NearestSample(S, Clamp(o.palette.list[k], 0, 255))) \div 2)]

(***************************************************************************)
(* Pyx.fit: the samples are the resized colours of X (one row of h * w     *)
(* samples when X has an alpha channel); the error raised ("" for none)    *)
(* and the object afterwards.                                              *)
(***************************************************************************)
FitSamples(o, X) ==
    LET rh == Min(X.h, BGM_RESIZE)
        rw == Min(X.w, BGM_RESIZE)
        R == IF X.d > 3 THEN Resize(X.px, 1, rh * rw) ELSE Resize(X.px, rh, rw)
        S == Flatten(R)
    IN  IF o.find_palette THEN Vec(rh * rw, LAMBDA i : ScaleRGB(S[i])) ELSE S

fit_marks_before_raise(o, X) ==
    [err |-> IF Len(FitSamples(o, X)) < PaletteSize(o) THEN "ValueError" ELSE "",
     obj |-> [o EXCEPT !.model = BGM_fit(o, FitSamples(o, X)), !.is_fitted = TRUE]]

fit(o, X) ==
    IF Len(FitSamples(o, X)) < PaletteSize(o)
    THEN [err |-> "ValueError", obj |-> o]
    ELSE [err |-> "",
          obj |-> [o EXCEPT !.model = BGM_fit(o, FitSamples(o, X)),
                            !.is_fitted = TRUE]]

(***************************************************************************)
(* Pyx.colors: the memoized palette.  When the palette is searched the     *)
(* colours are the means, scaled, quantized to COLOR_QUANT, clipped and    *)
(* pushed to 0 or 255 near the ends; else the palette as integers.         *)
(***************************************************************************)
AutoColor(m) ==
    LET q == Clamp(((m * SCALE_RGB) \div (100 * COLOR_QUANT)) * COLOR_QUANT, 0, 255)
    IN  IF q < COLOR_QUANT * 2 THEN 0
        ELSE IF q > 255 - COLOR_QUANT * 2 THEN 255
        ELSE q

_image_to_int_no_clip(l) == l

\* Pyx._image_to_int on a list of integers.
_image_to_int(l) == Vec(Len(l), LAMBDA k : Clamp(l[k], 0, 255))

colors_recomputes(o) ==
    IF o.find_palette
    THEN IF ~ o.is_fitted
         THEN [err |-> "AssertionError", obj |-> o, cols |-> <<>>]
         ELSE LET c == Vec(Len(o.model.means_), LAMBDA k : AutoColor(o.model.means_[k]))
              IN  [err |-> "", obj |-> [o EXCEPT !.palette_cache = c], cols |-> c]
    ELSE LET c == _image_to_int(o.palette.list)
         IN  [err |-> "", obj |-> [o EXCEPT !.palette_cache = c], cols |-> c]

colors(o) ==
    IF o.palette_cache = <<>>
    THEN IF o.find_palette
         THEN IF ~ o.is_fitted
              THEN [err |-> "AssertionError", obj |-> o, cols |-> <<>>]
              ELSE LET c == Vec(Len(o.model.means_), LAMBDA k : AutoColor(o.model.means_[k]))
                   IN  [err |-> "", obj |-> [o EXCEPT !.palette_cache = c], cols |-> c]
         ELSE LET c == _image_to_int(o.palette.list)
              IN  [err |-> "", obj |-> [o EXCEPT !.palette_cache = c], cols |-> c]
    ELSE [err |-> "", obj |-> o, cols |-> o.palette_cache]

(***************************************************************************)
(* The posterior of the fitted mixture for a colour v, one weight per      *)
(* component: a component within 32 of the nearest mean has weight 2, the  *)
(* others weight 1.  The probability of component k is a[k]^12 / Z with Z  *)
(* the sum of the a[k]^12, so that the square root of BGM.predict_proba    *)
(* and the sixth root of the Floyd pass are exact.                         *)
(***************************************************************************)
Weights(means, v) ==
    LET dist == Vec(Len(means), LAMBDA k : Abs(v - means[k]))
        near == SeqMin(dist)
    IN  Vec(Len(means), LAMBDA k : IF dist[k] <= near + 32 THEN 2 ELSE 1)

\* BayesianGaussianMixture.predict: the component of greatest posterior.
predict(means, v) == ArgMax(Weights(means, v))

(***************************************************************************)
(* Pyx._dilate on an image with an alpha channel: pad to 3, replace the    *)
(* colour of every sample whose raw alpha is below self.alpha by the       *)
(* greatest colour of its 3 x 3 neighbourhood, remove the padding.  The    *)
(* colours are written into the array np.pad returned, a new one: out is   *)
(* the image returned and src the caller's array after the call.           *)
(***************************************************************************)
Window3(M, r, c) ==
    Flatten(Mat(3, 3, LAMBDA i, j :
        M[Clamp(r + i - 2, 1, Len(M))][Clamp(c + j - 2, 1, Len(M[1]))]))

Dilation3(M) == Mat(Len(M), Len(M[1]), LAMBDA r, c : SeqMax(Window3(M, r, c)))

_dilate(o, X) ==
    LET P == _pad(X.px, 3, None, None)
        A == _pad(X.al, 3, None, None)
        alter == Dilation3(P)
        Q == Mat(Len(P), Len(P[1]), LAMBDA r, c :
                IF A[r][c] * 255 < o.alpha THEN alter[r][c] ELSE P[r][c])
    IN  [out |-> [X EXCEPT !.px = _pad(Q, 3, X.h, X.w), !.al = _pad(A, 3, X.h, X.w)],
         src |-> X]

\* rgb2hsv, saturation and value times HIST_BRIGHTNESS, clip, hsv2rgb.
Boost(v) == Clamp((v * HIST_BRIGHTNESS) \div 100, 0, 255)

(***************************************************************************)
(* Pyx._median: pad to 3, the median of every 3 x 3 neighbourhood, remove  *)
(* the padding.                                                            *)
(***************************************************************************)
Median9(s) ==
    s[CHOOSE i \in 1..9 :
        /\ Cardinality({j \in 1..9 : s[j] < s[i]}) <= 4
        /\ Cardinality({j \in 1..9 : s[j] > s[i]}) <= 4]

MedianFilter(M) == Mat(Len(M), Len(M[1]), LAMBDA r, c : Median9(Window3(M, r, c)))

_median(M) == _pad(MedianFilter(_pad(M, 3, None, None)), 3, Len(M), Len(M[1]))

(***************************************************************************)
(* Pyx._pyxelate: pad to the tile size, then one sample per tile, the      *)
(* average of the tile weighted by the gradient magnitude (plus a small    *)
(* constant).  view_as_blocks raises when the padded image is not made of  *)
(* whole tiles: the result is then the empty matrix.                       *)
(***************************************************************************)
Sobel(M, r, c) ==
    1 + Abs(M[r][Clamp(c + 1, 1, Len(M[1]))] - M[r][Clamp(c - 1, 1, Len(M[1]))])
      + Abs(M[Clamp(r + 1, 1, Len(M))][c] - M[Clamp(r - 1, 1, Len(M))][c])

RECURSIVE SumSeq(_)
SumSeq(s) == IF s = <<>> THEN 0 ELSE Head(s) + SumSeq(Tail(s))

Tile(t, R, C) == Mat(t, t, LAMBDA i, j : <<(R - 1) * t + i, (C - 1) * t + j>>)

_pyxelate(o, M) ==
    LET X_pad == _pad(M, o.sobel, None, None)
        t == o.sobel
    IN  IF Len(X_pad) % t # 0 \/ Len(X_pad[1]) % t # 0
        THEN <<>>
        ELSE Mat(Len(X_pad) \div t, Len(X_pad[1]) \div t, LAMBDA R, C :
                LET cells == Flatten(Tile(t, R, C))
                    g == Vec(t * t, LAMBDA k : Sobel(X_pad, cells[k][1], cells[k][2]))
                    gv == Vec(t * t, LAMBDA k : g[k] * X_pad[cells[k][1]][cells[k][2]])
                IN  SumSeq(gv) \div SumSeq(g))

\* The loop of transform: depth passes of (median when boosted, RGB) and _pyxelate.
RECURSIVE PyxLoop(_, _, _, _)
PyxLoop(o, M, d, k) ==
    IF k = 0 \/ M = <<>> THEN M
    ELSE PyxLoop(o, _pyxelate(o, IF o.boost /\ d = 3 THEN _median(M) ELSE M), d, k - 1)

RECURSIVE Pow(_, _)
Pow(b, e) == IF e = 0 THEN 1 ELSE b * Pow(b, e - 1)

\* np.repeat(np.repeat(M, u0, axis=0), u1, axis=1)
Repeat(M, u0, u1) ==
    Mat(Len(M) * u0, Len(M[1]) * u1, LAMBDA r, c :
        M[((r - 1) \div u0) + 1][((c - 1) \div u1) + 1])

\* astype(np.uint8)
Uint8(v) == v % 256

(***************************************************************************)
(* The alpha mask of transform, on the resized alpha a (0..255 for 0.-1.): *)
(* samples >= self.alpha become 255, then samples < self.alpha become 0,   *)
(* then astype(int).                                                       *)
(***************************************************************************)
AlphaMask_strict(o, a) ==
    LET s1 == IF a > o.alpha THEN 255 * 255 ELSE a
        s2 == IF s1 < o.alpha THEN 0 ELSE s1
    IN  s2 \div 255

AlphaMask(o, a) ==
    LET s1 == IF a >= o.alpha THEN 255 * 255 ELSE a
        s2 == IF s1 < o.alpha THEN 0 ELSE s1
    IN  s2 \div 255

(***************************************************************************)
(* BGM.predict_proba for a colour: the weights a of the components and the *)
(* exponent e, standing for the values a[k]^e / Z^(e/12): e is 12 for the  *)
(* probabilities and 6 for their square roots, returned when the palette   *)
(* has fewer than 3 colours.                                               *)
(***************************************************************************)
predict_proba(o, v) ==
    [a |-> Weights(o.model.means_, v), e |-> IF PaletteSize(o) < 3 THEN 6 ELSE 12]

\* The values of a weight vector under exponent e, up to the common factor.
Values(a, e) == Vec(Len(a), LAMBDA k : Pow(a[k], e))

\* Z, the sum of the a[k]^12.
Norm(a) == SumSeq(Values(a, 12))

\* a with entry i set to 0: probs[np.arange(len(p)), p] = 0.
Zeroed(a, i) == [a EXCEPT ![i] = 0]

(***************************************************************************)
(* dither "none": model.predict per sample.                                *)
(***************************************************************************)
DitherNone(o, F) == MapM(LAMBDA v : predict(o.model.means_, v), F)

(***************************************************************************)
(* dither "naive", on the flat positions 0 .. final_h * final_w - 1.  The  *)
(* loop visits i = 0, 2, 4, ... and, when final_w is even, moves i by the  *)
(* parity m of its row; the sample there takes the second best colour when *)
(* that colour's probability exceeds 1 / (n + 1) on rows with m = 1 and    *)
(* 1 / (n * DITHER_NAIVE_BOOST + 1) on rows with m = 0.                    *)
(***************************************************************************)
DITHER_NAIVE_BOOST == 133

NaiveTarget_never_shifts(i, final_w) == i

NaiveTarget(i, final_w) ==
    IF final_w % 2 = 0 THEN i + ((i \div final_w) % 2) ELSE i

NaiveLoop(len) == {i \in 0..(len - 1) : i % 2 = 0}

\* a^e / Z^(e/12) > num / den, both sides raised to the power 12 / e.
Exceeds(a, e, Z, num, den) ==
    Pow(a, 12) * Pow(den, 12 \div e) > Z * Pow(num, 12 \div e)

NaiveIndex(o, v, m, n) ==
    LET pr == predict_proba(o, v)
        p == ArgMax(pr.a)
        rest == Zeroed(pr.a, p)
        p2 == ArgMax(rest)
        v1 == Exceeds(SeqMax(rest), pr.e, Norm(pr.a), 1, n + 1)
        v2 == Exceeds(SeqMax(rest), pr.e, Norm(pr.a), 100, n * DITHER_NAIVE_BOOST + 100)
    IN  IF m = 2 THEN p
        ELSE IF m = 1 THEN (IF v1 THEN p2 ELSE p)
        ELSE (IF v2 THEN p2 ELSE p)

DitherNaive(o, F, n) ==
    LET final_w == Len(F[1])
        len == Len(F) * final_w
        loop == NaiveLoop(len)
    IN  IF \E i \in loop : NaiveTarget(i, final_w) >= len
        THEN <<>>
        ELSE Mat(Len(F), final_w, LAMBDA r, c :
                LET j == (r - 1) * final_w + (c - 1)
                    hit == {i \in loop : NaiveTarget(i, final_w) = j}
                IN  NaiveIndex(o, F[r][c],
                               IF hit = {} THEN 2
                               ELSE ((CHOOSE i \in hit : TRUE) \div final_w) % 2, n))

(***************************************************************************)
(* dither "bayer": per colour, scipy.ndimage.convolve of the probability   *)
(* map with the 4 x 4 matrix (here times 16), mode "reflect"; the index is *)
(* the colour of least convolved value.                                    *)
(***************************************************************************)
DITHER_BAYER_MATRIX ==
    <<<<-8, 0, -6, 2>>, <<4, -4, 6, -2>>, <<-5, 3, -7, 1>>, <<7, -1, 5, -3>>>>

\* mode "reflect" (d c b a | a b c d | d c b a): the position in 1..n for i.
ReflectEdge(i, n) ==
    LET m == (i - 1) % (2 * n)
    IN  IF m < n THEN m + 1 ELSE 2 * n - m

Convolve(M, r, c) ==
    SumSeq(Flatten(Mat(4, 4, LAMBDA a, b :
        DITHER_BAYER_MATRIX[a][b]
        * M[ReflectEdge(r + 3 - a, Len(M))][ReflectEdge(c + 3 - b, Len(M[1]))])))

DitherBayer(o, F, n) ==
    LET probs == MapM(LAMBDA v : Values(predict_proba(o, v).a, predict_proba(o, v).e), F)
        maps == Vec(n, LAMBDA k : MapM(LAMBDA q : q[k], probs))
    IN  Mat(Len(F), Len(F[1]), LAMBDA r, c :
            ArgMin(Vec(n, LAMBDA k : Convolve(maps[k], r, c))))

(***************************************************************************)
(* dither "floyd".  The working buffer P holds, per sample, the vector of  *)
(* np.power(probs, 1 / 6.), in units of 1 / 4096 of the common factor; res *)
(* is the index map (np.zeros: every entry starts at the first colour)     *)
(* and written tells which entries of res have been assigned.              *)
(* FloydPixel is one pass of the loop body at row y, column x (from 1):    *)
(* the division by 16 is exact in binary floating point, so the greatest   *)
(* entry of quant_error is the greatest entry of P[y][x].                  *)
(***************************************************************************)
VecAdd(u, v, f) == Vec(Len(u), LAMBDA k : u[k] + f * v[k])

FloydStart(A, e) ==
    [P |-> MapM(LAMBDA a : Vec(Len(a), LAMBDA k : Pow(a[k], e \div 6) * 4096), A),
     res |-> MapM(LAMBDA a : 1, A),
     written |-> MapM(LAMBDA a : FALSE, A)]

FloydPixel(st, y, x) ==
    LET r == ArgMax(st.P[y][x])
        quant_error == Vec(Len(st.P[y][x]), LAMBDA k :
                           IF k = r THEN 0 ELSE st.P[y][x][k] \div 16)
    IN  [P |-> [st.P EXCEPT ![y][x + 1] = VecAdd(@, quant_error, 7),
                            ![y + 1][x - 1] = VecAdd(@, quant_error, 3),
                            ![y + 1][x] = VecAdd(@, quant_error, 5),
                            ![y + 1][x + 1] = VecAdd(@, quant_error, 1)],
         res |-> [st.res EXCEPT ![y][x] = r],
         written |-> [st.written EXCEPT ![y][x] = TRUE]]

FloydScan_by_columns(h, w) ==
    IF h < 2 \/ w < 3 THEN <<>>
    ELSE Vec((h - 1) * (w - 2), LAMBDA i :
            <<((i - 1) % (h - 1)) + 1, ((i - 1) \div (h - 1)) + 2>>)

\* The samples of the loop, in its order: rows 1 .. h - 1, columns 2 .. w - 1.
FloydScan(h, w) ==
    IF h < 2 \/ w < 3 THEN <<>>
    ELSE Vec((h - 1) * (w - 2), LAMBDA i :
            <<((i - 1) \div (w - 2)) + 1, ((i - 1) % (w - 2)) + 2>>)

FloydEdges_skips_first_column(st) ==
    [P |-> st.P,
     res |-> Mat(Len(st.P), Len(st.P[1]), LAMBDA y, x :
                IF x = Len(st.P[1]) \/ (y = Len(st.P) /\ x > 1)
                THEN ArgMax(st.P[y][x]) ELSE st.res[y][x]),
     written |-> Mat(Len(st.P), Len(st.P[1]), LAMBDA y, x :
                    (x = Len(st.P[1]) \/ (y = Len(st.P) /\ x > 1)) \/ st.written[y][x])]

\* "fix edges": the last column, the first column and the last row.
FloydEdges(st) ==
    [P |-> st.P,
     res |-> Mat(Len(st.P), Len(st.P[1]), LAMBDA y, x :
                IF x = Len(st.P[1]) \/ x = 1 \/ y = Len(st.P)
                THEN ArgMax(st.P[y][x]) ELSE st.res[y][x]),
     written |-> Mat(Len(st.P), Len(st.P[1]), LAMBDA y, x :
                    (x = Len(st.P[1]) \/ x = 1 \/ y = Len(st.P)) \/ st.written[y][x])]

RECURSIVE FloydRun(_, _, _)
FloydRun(st, scan, i) ==
    IF i > Len(scan) THEN st
    ELSE FloydRun(FloydPixel(st, scan[i][1], scan[i][2]), scan, i + 1)

DitherFloyd(o, F) ==
    LET A == MapM(LAMBDA v : predict_proba(o, v).a, F)
        e == IF PaletteSize(o) < 3 THEN 6 ELSE 12
    IN  FloydEdges(FloydRun(FloydStart(A, e), FloydScan(Len(F), Len(F[1])), 1)).res

(***************************************************************************)
(* dither "atkinson".  The working buffer X is the image padded by         *)
(* np.pad(X_, ((0, 2), (1, 2), (0, 0)), "reflect"); AtkinsonPixel is the   *)
(* loop body at row y, column x of the buffer (from 1): predict the        *)
(* sample, add an eighth of its residual to six neighbours.                *)
(***************************************************************************)
\* mode "reflect" of np.pad (d c b | a b c d | c b a): the position in 1..n for i.
ReflectIndex(i, n) ==
    IF n = 1 THEN 1
    ELSE LET m == (i - 1) % (2 * (n - 1))
         IN  IF m < n THEN m + 1 ELSE 2 * (n - 1) - m + 1

\* Division of a float by 8, kept to whole units: rounded towards zero.
Eighth(v) == IF v >= 0 THEN v \div 8 ELSE 0 - ((0 - v) \div 8)

AtkinsonStart(F) ==
    [X |-> Mat(Len(F) + 2, Len(F[1]) + 3, LAMBDA r, c :
                F[ReflectIndex(r, Len(F))][ReflectIndex(c - 1, Len(F[1]))]),
     res |-> Mat(Len(F) + 2, Len(F[1]) + 3, LAMBDA r, c : 1)]

AtkinsonPixel(means, st, y, x) ==
    LET r == predict(means, st.X[y][x])
        quant_error == Eighth(st.X[y][x] - means[r])
    IN  [X |-> [st.X EXCEPT ![y][x + 1] = @ + quant_error,
                            ![y][x + 2] = @ + quant_error,
                            ![y + 1][x - 1] = @ + quant_error,
                            ![y + 1][x] = @ + quant_error,
                            ![y + 1][x + 1] = @ + quant_error,
                            ![y + 2][x] = @ + quant_error],
         res |-> [st.res EXCEPT ![y][x] = r]]

\* The samples of the loop, in its order: rows 1 .. h, columns 2 .. w + 1.
AtkinsonScan(h, w) == Vec(h * w, LAMBDA i : <<((i - 1) \div w) + 1, ((i - 1) % w) + 2>>)

\* res[:final_h, 1:final_w+1]
AtkinsonCrop(st, h, w) == Mat(h, w, LAMBDA r, c : st.res[r][c + 1])

RECURSIVE AtkinsonRun(_, _, _, _)
AtkinsonRun(means, st, scan, i) ==
    IF i > Len(scan) THEN st
    ELSE AtkinsonRun(means, AtkinsonPixel(means, st, scan[i][1], scan[i][2]), scan, i + 1)

DitherAtkinson(o, F) ==
    AtkinsonCrop(AtkinsonRun(o.model.means_, AtkinsonStart(F),
                             AtkinsonScan(Len(F), Len(F[1])), 1),
                 Len(F), Len(F[1]))

(***************************************************************************)
(* The dithering of transform: the matrix of palette indices (from 1) of   *)
(* the final image F with n = len(self.colors) colours; the empty matrix   *)
(* when the naive loop indexes past the end.                               *)
(***************************************************************************)
Dither(o, F, n) ==
    IF o.dither \in {"None", "none"} THEN DitherNone(o, F)
    ELSE IF o.dither = "naive" THEN DitherNaive(o, F, n)
    ELSE IF o.dither = "bayer" THEN DitherBayer(o, F, n)
    ELSE IF o.dither = "floyd" THEN DitherFloyd(o, F)
    ELSE DitherAtkinson(o, F)

(***************************************************************************)
(* Pyx.transform: the error raised ("" for none), the object afterwards,   *)
(* the caller's array afterwards and the image returned.  The checks come  *)
(* in the order of the code: the two assertions, the resize (which fails   *)
(* on an empty target size), the tiles of _pyxelate, the prediction (which *)
(* the mixture refuses before it is fitted), the indexing of the naive     *)
(* loop, and np.repeat, which rejects a fractional upscale; the last two   *)
(* come after self.colors has filled the palette cache.                    *)
(***************************************************************************)
Fail(e, o, X) == [err |-> e, obj |-> o, arg |-> X, out |-> NoImage]

\* The end of transform: the index past the end in the naive loop, np.repeat
\* and astype(np.uint8), with the alpha mask attached when X has one.
transform_output(o, X, src, pal, idx, mask) ==
    IF idx = <<>> THEN Fail("IndexError", pal.obj, src)
    ELSE IF ~ (IsInteger(o.upscale[1]) /\ IsInteger(o.upscale[2]))
    THEN Fail("TypeError", pal.obj, src)
    ELSE [err |-> "", obj |-> pal.obj, arg |-> src,
          out |-> [h |-> Len(idx) * Trunc(o.upscale[1]),
                   w |-> Len(idx[1]) * Trunc(o.upscale[2]),
                   d |-> X.d,
                   px |-> MapM(Uint8, Repeat(MapM(LAMBDA i : pal.cols[i], idx),
                                             Trunc(o.upscale[1]), Trunc(o.upscale[2]))),
                   al |-> IF X.d > 3
                          THEN MapM(Uint8, Repeat(mask, Trunc(o.upscale[1]),
                                                  Trunc(o.upscale[2])))
                          ELSE <<>>]]

\* The dithering of the downsampled image L, with the colours pal.
transform_dither(o, X, src, L, pal, mask) ==
    transform_output(o, X, src, pal,
                     Dither(o, IF o.find_palette THEN MapM(ScaleRGB, L) ELSE L,
                            Len(pal.cols)),
                     mask)

\* The image L after the depth loop, and the alpha mask.
transform_pyxelated(o, X, src, L, mask) ==
    IF L = <<>> THEN Fail("ValueError", o, src)
    ELSE IF ~ o.model.fitted THEN Fail("NotFittedError", o, src)
    ELSE transform_dither(o, X, src, L, colors(o), mask)

\* The resize to the size sz of _get_size of the dilated image D, the boost
\* and the depth loop.
transform_sized(o, X, sz, D) ==
    IF sz[1] < 1 \/ sz[2] < 1 THEN Fail("ResizeError", o, D.src)
    ELSE transform_pyxelated(o, X, D.src,
             PyxLoop(o,
                     IF o.boost
                     THEN MapM(Boost, Resize(D.out.px, sz[1] * Pow(o.sobel, o.depth),
                                             sz[2] * Pow(o.sobel, o.depth)))
                     ELSE Resize(D.out.px, sz[1] * Pow(o.sobel, o.depth),
                                 sz[2] * Pow(o.sobel, o.depth)),
                     X.d, o.depth),
             MapM(LAMBDA a : AlphaMask(o, a), Resize(D.out.al, sz[1], sz[2])))

transform(o, X) ==
    IF ~ o.is_fitted THEN Fail("AssertionError", o, X)
    ELSE IF X.h * X.w <= PaletteSize(o) THEN Fail("AssertionError", o, X)
    ELSE transform_sized(o, X, _get_size(o, X.h, X.w),
                         IF X.d > 3 THEN _dilate(o, X) ELSE [out |-> X, src |-> X])

(***************************************************************************)
(* The images of the model, one per height h: h x (h + 1) without an alpha *)
(* channel when h is odd, h x h with one when h is even; colour and alpha  *)
(* samples vary with the position and the shape.                           *)
(***************************************************************************)
MaxImgDim == 3

Image(h) ==
    LET w == h + (h % 2)
    IN  [h |-> h, w |-> w, d |-> IF h % 2 = 1 THEN 3 ELSE 4,
         px |-> Mat(h, w, LAMBDA r, c : (37 * h + 61 * r + 29 * c * w) % 256),
         al |-> IF h % 2 = 1 THEN <<>>
                ELSE Mat(h, w, LAMBDA r, c :
                        IF (r + c) % 3 = 0 THEN 0 ELSE ((r + c) * 85) % 256)]

Images == {Image(h) : h \in 1..MaxImgDim}

(***************************************************************************)
(* The configurations of the lifecycle model: the geometry options with    *)
(* two tile sizes and depths, and the dither modes with three palettes.    *)
(***************************************************************************)
BaseArgs ==
    [height |-> None, width |-> None, factor |-> None, sobel |-> 6,
     upscale |-> Scalar(2), depth |-> 1, palette |-> PalNum(2), dither |-> "none",
     alpha |-> 153, boost |-> TRUE]

Geometries ==
    {<<None, None, None>>, <<4, 6, None>>, <<4, None, None>>, <<None, 4, None>>,
     <<None, None, 4>>, <<None, None, 6>>, <<3, None, None>>}

GeometryArgs ==
    {[BaseArgs EXCEPT !.height = g[1], !.width = g[2], !.factor = g[3],
                      !.sobel = sd[1], !.depth = sd[2], !.upscale = Pair(4, 2)] :
        g \in Geometries, sd \in {<<6, 1>>, <<4, 2>>}}
    \cup {[BaseArgs EXCEPT !.upscale = Scalar(3)]}

DitherArgs ==
    {[BaseArgs EXCEPT !.dither = d, !.palette = p, !.boost = FALSE] :
        d \in Dithers, p \in {PalNum(2), PalNum(3), PalList(<<0, 300>>)}}

\* Alpha thresholds: 0., a value a sample of the images has, 1., and values
\* below 0., above 1. and above 255.
AlphaThresholds == {-10, 0, 84, 255, 300, 76500}

AlphaArgs ==
    {[BaseArgs EXCEPT !.alpha = t, !.boost = FALSE] : t \in AlphaThresholds}

LifecycleArgs == GeometryArgs \cup DitherArgs \cup AlphaArgs

(***************************************************************************)
(* The calls on the object.                                                *)
(***************************************************************************)
Fit(X) ==
    /\ obj # NoObject
    /\ \E f \in {fit(obj, X)} :
           /\ obj' = f.obj
           /\ last' = Call("fit", f.err, X, X, NoImage, <<>>)
           /\ hist' = IF f.err = "" THEN [hist EXCEPT !.lastFit = X]
                      ELSE [hist EXCEPT !.raised = TRUE]
    /\ UNCHANGED <<pad, initArgs, dith>>

Colors ==
    /\ obj # NoObject
    /\ \E c \in {colors(obj)} :
           /\ obj' = c.obj
           /\ last' = Call("colors", c.err, NoImage, NoImage, NoImage, c.cols)
    /\ UNCHANGED <<pad, initArgs, hist, dith>>

Transform(X) ==
    /\ obj # NoObject
    /\ \E t \in {transform(obj, X)} :
           /\ obj' = t.obj
           /\ last' = Call("transform", t.err, X, t.arg, t.out, <<>>)
    /\ UNCHANGED <<pad, initArgs, hist, dith>>

Init ==
    /\ obj = NoObject /\ initArgs = Idle /\ last = Idle /\ hist = Idle
    /\ pad = Idle /\ dith = Idle

Next ==
    \/ last = Idle /\ \E a \in LifecycleArgs : Construct(a)
    \/ \E X \in Images : Fit(X)
    \/ Colors
    \/ \E X \in Images : Transform(X)

Spec == Init /\ [][Next]_vars

(***************************************************************************)
(* Claims about the lifecycle, under Spec.                                 *)
(***************************************************************************)
Returned == obj # NoObject /\ last.status = "ok"

RangeOf(s) == {s[k] : k \in 1..Len(s)}

\* C3: a transform call made when no fit call has returned (an earlier fit
\* call may have raised) ends with an error, returns no image and leaves
\* is_fitted, the model and palette_cache as they were; so transform returns
\* an image only after some fit has returned.
C3_TransformNeedsFit ==
    [][(last'.op = "transform" /\ hist.lastFit = NoImage)
        => /\ last'.status = "error"
           /\ last'.out = NoImage
           /\ obj'.is_fitted = obj.is_fitted
           /\ obj'.model = obj.model
           /\ obj'.palette_cache = obj.palette_cache]_vars

C3_Witness ==
    /\ obj # NoObject /\ last.op = "transform" /\ last.status = "error"
    /\ hist.lastFit = NoImage /\ hist.raised
    /\ last.img.h * last.img.w > PaletteSize(obj)

\* The colours derived from the component means of a fit of image X.
FittedColors(o, X) ==
    LET m == BGM_fit(o, FitSamples(o, X)).means_
    IN  Vec(Len(m), LAMBDA k : AutoColor(m[k]))

\* C4: when the palette is searched, the palette cache, the value colors
\* returns and the colours transform uses are those derived from the means
\* of the most recent fit that returned, never those of an earlier fit.
C4_CacheFollowsRefit ==
    (obj # NoObject /\ obj.find_palette /\ hist.lastFit # NoImage)
        => /\ obj.palette_cache \in {<<>>, FittedColors(obj, hist.lastFit)}
           /\ (last.op = "colors" /\ last.status = "ok")
                => last.cols = FittedColors(obj, hist.lastFit)
           /\ (last.op = "transform" /\ last.status = "ok")
                => \A r \in 1..last.out.h, c \in 1..last.out.w :
                       last.out.px[r][c] \in RangeOf(FittedColors(obj, hist.lastFit))

\* The geometry rule: the explicit size, the proportional size with
\* truncation, the integer division by the factor, or the original size.
HeightAfterGeometry(o, h, w) ==
    IF o.height # None THEN o.height
    ELSE IF o.width # None THEN (o.width * h) \div w
    ELSE IF o.factor # None THEN h \div o.factor
    ELSE h

WidthAfterGeometry(o, h, w) ==
    IF o.width # None THEN o.width
    ELSE IF o.height # None THEN (o.height * w) \div h
    ELSE IF o.factor # None THEN w \div o.factor
    ELSE w

\* C6 as stated: the image transform returns has height
\* heightAfterGeometry * tileSize^depth * upscaleRow and width
\* widthAfterGeometry * tileSize^depth * upscaleCol.
C6_OutputSizeAsStated ==
    (Returned /\ last.op = "transform")
        => Shape(last.out.px) =
              <<HeightAfterGeometry(obj, last.img.h, last.img.w)
                    * Pow(obj.sobel, obj.depth) * Trunc(obj.upscale[1]),
                WidthAfterGeometry(obj, last.img.h, last.img.w)
                    * Pow(obj.sobel, obj.depth) * Trunc(obj.upscale[2])>>

\* C6, amended: the image transform returns has height heightAfterGeometry *
\* upscaleRow and width widthAfterGeometry * upscaleCol; the depth passes of
\* the downsampler divide the factor tileSize^depth out again.
C6_OutputSize ==
    (Returned /\ last.op = "transform")
        => /\ Shape(last.out.px) =
                 <<HeightAfterGeometry(obj, last.img.h, last.img.w) * Trunc(obj.upscale[1]),
                   WidthAfterGeometry(obj, last.img.h, last.img.w) * Trunc(obj.upscale[2])>>
           /\ <<last.out.h, last.out.w>> = Shape(last.out.px)

C6_Witness ==
    /\ Returned /\ last.op = "transform"
    /\ obj.depth = 2 /\ obj.height # None /\ obj.width = None
    /\ last.img.h = 3
    /\ Shape(last.out.px) = <<4, 2>>

\* C8: with dither None or "none", every sample of the image transform
\* returns is one of the entries of colors.
C8_NoDitherUsesPalette ==
    (Returned /\ last.op = "transform" /\ obj.dither \in {"None", "none"})
        => \A r \in 1..Len(last.out.px) : \A c \in 1..Len(last.out.px[r]) :
               last.out.px[r][c] \in RangeOf(colors(obj).cols)

C8_Witness ==
    /\ Returned /\ last.op = "transform" /\ obj.dither = "none"
    /\ ~ obj.find_palette
    /\ \E r \in 1..Len(last.out.px) : \E c \in 1..Len(last.out.px[r]) :
           /\ last.out.px[r][c] = colors(obj).cols[2]
           /\ last.out.px[1][1] # last.out.px[r][c]

\* C9: a fit or transform call with an image of h * w samples, h * w not
\* above the number of colours of the palette, fails on the engine's own
\* assertion, returns nothing and, for fit, does not complete the fit.
C9_SmallImageRejected ==
    (obj # NoObject /\ last.op \in {"fit", "transform"}
         /\ last.img.h * last.img.w <= PaletteSize(obj))
        => /\ last.status = "error" /\ last.err = "AssertionError"
           /\ last.out = NoImage
           /\ last.op = "fit" => (hist.lastFit # last.img /\ ~ obj.is_fitted)

\* C10: a transform call leaves the model, is_fitted, the configuration and
\* the caller's image as they were and changes at most the palette cache,
\* from empty to filled; a transform call after a transform call of the
\* same image ends as the first did.
C10_TransformReadOnly ==
    [][last'.op = "transform"
        => /\ obj'.model = obj.model
           /\ obj'.is_fitted = obj.is_fitted
           /\ [obj' EXCEPT !.palette_cache = <<>>] = [obj EXCEPT !.palette_cache = <<>>]
           /\ obj'.palette_cache # obj.palette_cache
                => (obj.palette_cache = <<>> /\ obj'.palette_cache # <<>>)
           /\ last'.arg = last'.img
           /\ (last.op = "transform" /\ last.img = last'.img)
                => (last'.out = last.out /\ last'.err = last.err)]_vars

C10_Witness ==
    /\ Returned /\ last.op = "transform" /\ last.img.d = 4
    /\ obj.find_palette /\ obj.palette_cache # <<>>
    /\ obj.dither = "atkinson"
    /\ last.arg = last.img

(***************************************************************************)
(* The two error-diffusion passes of transform, one loop iteration per     *)
(* step, on a final image that is uniform or differs in its first sample.  *)
(* The Floyd pass starts from the posterior of every sample, a weight      *)
(* vector over two colours under exponent 6 or 12; the Atkinson pass from  *)
(* the colours and the means of the mixture.                               *)
(***************************************************************************)
MaxDitherDim == 4

MaxWeight == 2

Posteriors == {<<a, b>> : a \in 0..MaxWeight, b \in 0..MaxWeight}

DitherMeans == {<<0, 255>>, <<0, 128, 255>>}

DitherColors == {0, 100, 128, 255}

TwoTone(h, w, first, rest) ==
    Mat(h, w, LAMBDA r, c : IF r = 1 /\ c = 1 THEN first ELSE rest)

FloydTask(h, w, first, rest, e) ==
    [pc |-> "scan", mode |-> "floyd", img |-> TwoTone(h, w, first, rest),
     means |-> <<>>, st |-> FloydStart(TwoTone(h, w, first, rest), e),
     scan |-> FloydScan(h, w), i |-> 1, out |-> <<>>]

AtkinsonTask(h, w, first, rest, means) ==
    [pc |-> "scan", mode |-> "atkinson", img |-> TwoTone(h, w, first, rest),
     means |-> means, st |-> AtkinsonStart(TwoTone(h, w, first, rest)),
     scan |-> AtkinsonScan(h, w), i |-> 1, out |-> <<>>]

DitherInit ==
    /\ pad = Idle /\ obj = Idle /\ initArgs = Idle /\ last = Idle /\ hist = Idle
    /\ \E h \in 1..MaxDitherDim, w \in 1..MaxDitherDim :
           \/ \E first \in Posteriors, rest \in Posteriors, e \in {6, 12} :
                  dith = FloydTask(h, w, first, rest, e)
           \/ \E first \in DitherColors, rest \in DitherColors, means \in DitherMeans :
                  dith = AtkinsonTask(h, w, first, rest, means)

FloydStep ==
    /\ dith.pc = "scan" /\ dith.mode = "floyd" /\ dith.i <= Len(dith.scan)
    /\ dith' = [dith EXCEPT
                   !.st = FloydPixel(dith.st, dith.scan[dith.i][1], dith.scan[dith.i][2]),
                   !.i = dith.i + 1]
    /\ UNCHANGED <<pad, obj, initArgs, last, hist>>

FloydFix ==
    /\ dith.pc = "scan" /\ dith.mode = "floyd" /\ dith.i > Len(dith.scan)
    /\ dith' = [dith EXCEPT !.pc = "done", !.st = FloydEdges(dith.st),
                            !.out = FloydEdges(dith.st).res]
    /\ UNCHANGED <<pad, obj, initArgs, last, hist>>

AtkinsonStep ==
    /\ dith.pc = "scan" /\ dith.mode = "atkinson" /\ dith.i <= Len(dith.scan)
    /\ dith' = [dith EXCEPT
                   !.st = AtkinsonPixel(dith.means, dith.st,
                                        dith.scan[dith.i][1], dith.scan[dith.i][2]),
                   !.i = dith.i + 1]
    /\ UNCHANGED <<pad, obj, initArgs, last, hist>>

AtkinsonFix ==
    /\ dith.pc = "scan" /\ dith.mode = "atkinson" /\ dith.i > Len(dith.scan)
    /\ dith' = [dith EXCEPT !.pc = "done",
                            !.out = AtkinsonCrop(dith.st, Len(dith.img), Len(dith.img[1]))]
    /\ UNCHANGED <<pad, obj, initArgs, last, hist>>

DitherNext == FloydStep \/ FloydFix \/ AtkinsonStep \/ AtkinsonFix

SpecDither == DitherInit /\ [][DitherNext]_vars

Uniform(M) == \A r \in 1..Len(M), c \in 1..Len(M[1]) : M[r][c] = M[1][1]

\* Nothing to diffuse: the quantisation error of a sample is zero.  In the
\* Floyd pass every posterior but the greatest is 0; in the Atkinson pass
\* the colour is the mean of the component predicted for it.
NothingToDiffuse ==
    IF dith.mode = "floyd"
    THEN \A k \in 1..Len(dith.img[1][1]) :
             k = ArgMax(dith.img[1][1]) \/ dith.img[1][1][k] = 0
    ELSE dith.img[1][1] = dith.means[predict(dith.means, dith.img[1][1])]

\* C7 as stated: with floyd and with atkinson, when every sample of the
\* final image has the same colour (the same posterior), every sample of
\* the index map gets the same palette index.
C7_UniformStaysUniformAsStated ==
    (dith.pc = "done" /\ Uniform(dith.img)) => Uniform(dith.out)

\* C7, amended: with floyd and with atkinson, when every sample of the
\* final image has the same colour and there is nothing to diffuse (floyd:
\* the posterior is 0 for every colour but the selected one; atkinson: the
\* colour is the mean of its component), every sample of the index map gets
\* the same palette index.
C7_UniformStaysUniform ==
    (dith.pc = "done" /\ Uniform(dith.img) /\ NothingToDiffuse) => Uniform(dith.out)

C7_Witness ==
    /\ dith.pc = "done" /\ dith.mode = "floyd"
    /\ Uniform(dith.img) /\ NothingToDiffuse
    /\ Len(dith.scan) > 1
    /\ dith.out[1][1] = 2 /\ Uniform(dith.out)

(***************************************************************************)
(* Claims about the alpha mask, under Spec.                                *)
(***************************************************************************)
\* The alpha channel of the image passed, resized to the size of _get_size.
ResizedAlpha ==
    Resize(last.img.al, _get_size(obj, last.img.h, last.img.w)[1],
           _get_size(obj, last.img.h, last.img.w)[2])

\* C11: for an image with an alpha channel, every alpha sample of the image
\* transform returns is 0 or 255, whatever the threshold; with a threshold
\* in [0, 1] the sample is 255 exactly when the resized alpha is at least
\* the threshold.
C11_AlphaMaskBinary ==
    (Returned /\ last.op = "transform" /\ last.img.d = 4)
        => /\ Shape(last.out.al) = Shape(last.out.px)
           /\ \A r \in 1..Len(last.out.al) : \A c \in 1..Len(last.out.al[r]) :
                  /\ last.out.al[r][c] \in {0, 255}
                  /\ obj.alpha \in 0..255
                       => (last.out.al[r][c] = 255
                             <=> ResizedAlpha[((r - 1) \div Trunc(obj.upscale[1])) + 1]
                                             [((c - 1) \div Trunc(obj.upscale[2])) + 1]
                                     >= obj.alpha)

C11_Witness ==
    /\ Returned /\ last.op = "transform" /\ last.img.d = 4
    /\ obj.alpha = 84
    /\ \E r \in 1..Len(last.out.al) : \E c \in 1..Len(last.out.al[r]) :
           /\ ResizedAlpha[r][c] = obj.alpha
           /\ last.out.al[r][c] = 255
    /\ \E r \in 1..Len(last.out.al) : \E c \in 1..Len(last.out.al[r]) :
           last.out.al[r][c] = 0

(***************************************************************************)
(* The loop of the naive dithering, one iteration per step, on a final     *)
(* image of h x w samples with n colours whose second best colour has the  *)
(* probability q[1] / q[2] everywhere.  res is the flat index map (1: the  *)
(* best colour, 2: the second best), seen the samples the loop has visited *)
(* with the threshold it applied there.                                    *)
(***************************************************************************)
MaxNaiveDim == 4

NaiveColors == {2, 3}

SecondBest == {<<1, 5>>, <<2, 9>>, <<3, 10>>, <<1, 3>>, <<1, 2>>}

\* v1 and v2 for a probability q: q > 1 / (n + 1), q > 1 / (n * 1.33 + 1).
NaiveV1(q, n) == q[1] * (n + 1) > q[2]

NaiveV2(q, n) == q[1] * (n * DITHER_NAIVE_BOOST + 100) > q[2] * 100

NaiveTask(h, w, n, q) ==
    [pc |-> "loop", mode |-> "naive", h |-> h, w |-> w, n |-> n, q |-> q,
     i |-> 0, res |-> Vec(h * w, LAMBDA j : 1), seen |-> {}]

\* The body of the loop for the loop variable i.
NaivePixel(st, i) ==
    IF NaiveTarget(i, st.w) >= st.h * st.w
    THEN [st EXCEPT !.pc = "IndexError"]
    ELSE IF (i \div st.w) % 2 = 1
    THEN [st EXCEPT !.i = i + 2,
                    !.seen = @ \cup {[at |-> NaiveTarget(i, st.w), rule |-> "base"]},
                    !.res[NaiveTarget(i, st.w) + 1] = IF NaiveV1(st.q, st.n) THEN 2 ELSE @]
    ELSE [st EXCEPT !.i = i + 2,
                    !.seen = @ \cup {[at |-> NaiveTarget(i, st.w), rule |-> "boosted"]},
                    !.res[NaiveTarget(i, st.w) + 1] = IF NaiveV2(st.q, st.n) THEN 2 ELSE @]

NaiveInit ==
    /\ pad = Idle /\ obj = Idle /\ initArgs = Idle /\ last = Idle /\ hist = Idle
    /\ \E h \in 1..MaxNaiveDim, w \in 1..MaxNaiveDim, n \in NaiveColors, q \in SecondBest :
           dith = NaiveTask(h, w, n, q)

NaiveStep ==
    /\ dith.pc = "loop" /\ dith.i < dith.h * dith.w
    /\ dith' = NaivePixel(dith, dith.i)
    /\ UNCHANGED <<pad, obj, initArgs, last, hist>>

NaiveEnd ==
    /\ dith.pc = "loop" /\ dith.i >= dith.h * dith.w
    /\ dith' = [dith EXCEPT !.pc = "done"]
    /\ UNCHANGED <<pad, obj, initArgs, last, hist>>

NaiveNext == NaiveStep \/ NaiveEnd

SpecNaive == NaiveInit /\ [][NaiveNext]_vars

\* The flat indices of the cells with (row + column) even.
Checkerboard(h, w) ==
    {j \in 0..(h * w - 1) : ((j \div w) + (j % w)) % 2 = 0}

Visited == {v.at : v \in dith.seen}

\* C12: in the naive dithering of a final image of any height and width,
\* every index the loop visits is inside 0 .. h * w - 1; the samples the
\* loop may replace by the second best colour are exactly the cells with
\* (row + column) even, so no two of them are neighbours in a row; the
\* threshold 1 / (n + 1) decides on odd rows and 1 / (1.33 n + 1) on even
\* rows.
C12_NaiveCheckerboard ==
    /\ dith.pc # "IndexError"
    /\ Visited \subseteq 0..(dith.h * dith.w - 1)
    /\ \A v \in dith.seen :
           v.rule = IF (v.at \div dith.w) % 2 = 1 THEN "base" ELSE "boosted"
    /\ dith.pc = "done"
         => /\ Visited = Checkerboard(dith.h, dith.w)
            /\ \A j \in Visited :
                   ~ ((j + 1) \in Visited /\ (j + 1) \div dith.w = j \div dith.w)
            /\ \A j \in 0..(dith.h * dith.w - 1) :
                   dith.res[j + 1] = 2
                     <=> /\ j \in Checkerboard(dith.h, dith.w)
                         /\ IF (j \div dith.w) % 2 = 1
                            THEN NaiveV1(dith.q, dith.n)
                            ELSE NaiveV2(dith.q, dith.n)

C12_Witness ==
    /\ dith.pc = "done" /\ dith.mode = "naive"
    /\ dith.h = 3 /\ dith.w = 4
    /\ NaiveV2(dith.q, dith.n) /\ ~ NaiveV1(dith.q, dith.n)
    /\ dith.res = <<2, 1, 2, 1, 1, 1, 1, 1, 2, 1, 2, 1>>
    /\ [at |-> 7, rule |-> "base"] \in dith.seen

(***************************************************************************)
(* Claims about the order of the Floyd pass, under SpecDither.             *)
(***************************************************************************)
DitherCells == (1..Len(dith.img)) \X (1..Len(dith.img[1]))

\* Rows 0 .. final_h - 2 and columns 1 .. final_w - 2, counted from 1.
Interior(c) == c[1] <= Len(dith.img) - 1 /\ c[2] >= 2 /\ c[2] <= Len(dith.img[1]) - 1

RasterBefore(c, d) == c[1] < d[1] \/ (c[1] = d[1] /\ c[2] < d[2])

Decided(st) == {c \in DitherCells : st.written[c[1]][c[2]]}

\* C13: in the Floyd pass the samples of rows 0 .. final_h - 2 and columns
\* 1 .. final_w - 2 are decided one per step in raster order, and a step
\* adds error only to samples not decided yet; the samples of the first
\* column, the last column and the last row add no error and are decided
\* after the scan by the greatest value; at the end every sample has an
\* index among the colours, whatever the size.
C13_FloydRasterOrder ==
    [][dith.mode = "floyd"
        => /\ dith'.pc = "scan"
                => /\ Cardinality(Decided(dith'.st) \ Decided(dith.st)) = 1
                   /\ \A c \in Decided(dith'.st) \ Decided(dith.st) :
                          /\ Interior(c)
                          /\ \A d \in Decided(dith.st) : RasterBefore(d, c)
           /\ \A c \in DitherCells :
                  dith'.st.P[c[1]][c[2]] # dith.st.P[c[1]][c[2]]
                    => /\ dith'.pc = "scan"
                       /\ c \notin Decided(dith'.st)
           /\ dith'.pc = "done"
                => /\ Decided(dith.st) = {c \in DitherCells : Interior(c)}
                   /\ Decided(dith'.st) = DitherCells
                   /\ \A c \in DitherCells :
                          /\ dith'.out[c[1]][c[2]] \in 1..Len(dith.img[1][1])
                          /\ dith'.out[c[1]][c[2]] =
                                IF Interior(c) THEN dith.st.res[c[1]][c[2]]
                                ELSE ArgMax(dith.st.P[c[1]][c[2]])]_vars

C13_Witness ==
    /\ dith.pc = "done" /\ dith.mode = "floyd"
    /\ Len(dith.img) = 3 /\ Len(dith.img[1]) = 4
    /\ Uniform(dith.img) /\ ~ Uniform(dith.out)
    /\ Decided(dith.st) = DitherCells

====
